---- MODULE Spec2Model ----
(***************************************************************************)
(* Model of the wireless-survey map scripts.                               *)
(*                                                                         *)
(*   visualizer.py   main: read_csv -> preprocess_data (merge samples taken *)
(*                   at one lat/lon within MERGE_WINDOW_SECONDS of the     *)
(*                   bucket's first sample) -> empty check -> folium map.  *)
(*   visualizer2.py  generate_map: read_csv -> folium map; its calls to    *)
(*                   preprocess_data and the empty check are commented out.*)
(*                                                                         *)
(* A cell of the table is a record [kind, num, den]: a number num/den, a   *)
(* missing value (NaN / NaT), a date string, a parsed timestamp, or a      *)
(* string that is no number.  The variables windows and scanned record     *)
(* what preprocess_data handed to merge_bucket and iterated; the code does *)
(* not keep them, the properties read them.                                *)
(***************************************************************************)
EXTENDS Integers, Sequences, FiniteSets, TLC

VARIABLES script, csv, pc, df, groups, group, current_bucket,
          bucket_start_time, merged_rows, hasBitrates, map, windows, scanned

vars == <<script, csv, pc, df, groups, group, current_bucket,
          bucket_start_time, merged_rows, hasBitrates, map, windows, scanned>>

\* ---------------------------------------------------------------- bounds
\* Longest input table (rows of the CSV file).
MaxRows == 3
\* Latest second a sample's datetime names, in the timing inputs.
MaxTime == 7

\* ------------------------------------------------------------- constants
MERGE_WINDOW_SECONDS == 6

\* ----------------------------------------------------------------- cells
Num(n) == [kind |-> "num", num |-> n, den |-> 1]
NaN == [kind |-> "nan", num |-> 0, den |-> 1]
NaT == [kind |-> "nat", num |-> 0, den |-> 1]
\* A cell holding text that is no number and no date ("abc").
Text == [kind |-> "str", num |-> 0, den |-> 1]
\* A cell holding a date string that names second t.
DateText(t) == [kind |-> "date", num |-> t, den |-> 1]
Timestamp(t) == [kind |-> "ts", num |-> t, den |-> 1]
\* Python's None (bucket_start_time before the first row).
None == [kind |-> "none", num |-> 0, den |-> 1]

isna(c) == c.kind \in {"nan", "nat"}

Abs(n) == IF n < 0 THEN -n ELSE n

RECURSIVE Gcd(_, _)
Gcd(a, b) == IF b = 0 THEN a ELSE Gcd(b, a % b)

\* The number s/n in lowest terms.
Ratio(s, n) ==
    LET g == Gcd(Abs(s), n)
    IN  [kind |-> "num", num |-> s \div g, den |-> n \div g]

\* a < b, a <= b for numbers and timestamps.
Lt(a, b) == a.num * b.den < b.num * a.den
Le(a, b) == a.num * b.den <= b.num * a.den

\* --------------------------------------------------------------- columns
\* The numeric columns merge_bucket averages, and the ones it also tracks
\* the extrema of (with the key each extreme is stored under).
NumericMetrics ==
    {"wireless_signal", "wireless_noisef", "wireless_rssi", "wireless_txpower",
     "wireless_distance", "wireless_ccq", "wireless_txrate", "wireless_rxrate"}

CategoricalFields == {"wireless_channel", "wireless_frequency", "wireless_opmode"}

\* ---------------------------------------------------------------- inputs
\* Metric values of one sample (one line of a survey log).
Profile(sig, noise, rssi, txp, dist, ccq, tx, rx) ==
    [wireless_signal |-> sig, wireless_noisef |-> noise, wireless_rssi |-> rssi,
     wireless_txpower |-> txp, wireless_distance |-> dist, wireless_ccq |-> ccq,
     wireless_txrate |-> tx, wireless_rxrate |-> rx]

ProfileA == Profile(Num(-50), Num(-95), Num(45), Num(20), Num(1), Num(90), Num(54), Num(48))
ProfileB == Profile(Num(-55), Num(-90), Num(35), Num(17), Num(2), Num(80), Num(36), Num(12))
ProfileC == Profile(Num(-60), Num(-92), Num(32), Num(18), Num(4), Num(61), Num(0), Num(24))
\* A line whose signal and tx-rate cells are empty.
ProfileMissing == Profile(NaN, Num(-91), Num(33), NaN, Num(3), Num(70), NaN, Num(30))
\* A line whose signal cell holds text that is no number.
ProfileText == Profile(Text, Num(-91), Num(33), Num(20), Num(3), Num(70), Num(36), Num(30))

Cat(ch, freq, mode) ==
    [wireless_channel |-> ch, wireless_frequency |-> freq, wireless_opmode |-> mode]

CatA == Cat(Num(1), Num(2412), "ap")
CatB == Cat(Num(6), Num(2437), "sta")

\* One line of the CSV file visualizer.py reads.
Sample(dt, lat, lon, p, c) ==
    [datetime |-> dt, latitude |-> lat, longitude |-> lon] @@ p @@ c

\* One line of the CSV file visualizer2.py reads.
Sample2(dt, lat, lon, head, tx) ==
    [datetime |-> dt, latitude |-> lat, longitude |-> lon, channel |-> Num(1),
     frequency |-> Num(915), rxbitrate |-> Num(12), txbitrate |-> tx,
     signalLevel |-> Num(-60), noiseLevel |-> Num(-95), heading |-> head,
     txpower |-> Num(20)]

SeqsUpTo(S, n) == UNION {[1..k -> S] : k \in 0..n}

Here == <<Num(10), Num(20)>>

\* Samples at one place, at any second up to MaxTime.
TimingRows == {Sample(DateText(t), Here[1], Here[2], ProfileA, CatA) : t \in 0..MaxTime}

\* Samples of one instant at neighbouring places, and lines the loader drops.
LocationRows ==
    {Sample(DateText(0), Here[1], Here[2], ProfileA, CatA),
     Sample(DateText(0), Num(11), Here[2], ProfileA, CatA),
     Sample(DateText(0), Here[1], Num(21), ProfileA, CatA),
     Sample(DateText(0), NaN, Here[2], ProfileA, CatA),
     Sample(DateText(0), Here[1], NaN, ProfileA, CatA),
     Sample(Text, Here[1], Here[2], ProfileA, CatA),
     Sample(NaN, Here[1], Here[2], ProfileA, CatA)}

\* Samples at one place with differing metrics, in one window or two.
MetricRows ==
    {Sample(DateText(t), Here[1], Here[2], p, CatA) :
        t \in {0, MERGE_WINDOW_SECONDS + 1},
        p \in {ProfileA, ProfileB, ProfileMissing}}

\* Samples at one place with differing channel/frequency/mode, some tied in time.
CategoricalRows ==
    {Sample(DateText(t), Here[1], Here[2], ProfileA, c) : t \in {0, 1}, c \in {CatA, CatB}}

\* Samples at two places, in one window or two at each.
InterleavedRows ==
    {Sample(DateText(t), lat, Here[2], ProfileA, CatA) :
        t \in {0, MERGE_WINDOW_SECONDS, MERGE_WINDOW_SECONDS + 1}, lat \in {Here[1], Num(11)}}

\* Three samples at t = 0, 2, 4 with signal -50, -55, -60.
ThreeSamples ==
    <<Sample(DateText(0), Here[1], Here[2], ProfileA, CatA),
      Sample(DateText(2), Here[1], Here[2], ProfileB, CatA),
      Sample(DateText(4), Here[1], Here[2], ProfileC, CatA)>>

\* Four samples at t = 0, 5, 6, 13.
BoundaryTimes == <<0, 5, 6, 13>>
BoundarySamples ==
    [i \in DOMAIN BoundaryTimes |->
        Sample(DateText(BoundaryTimes[i]), Here[1], Here[2], ProfileA, CatA)]

Range(s) == {s[i] : i \in DOMAIN s}

\* The tables visualizer.py is run on.
Inputs ==
    SeqsUpTo(TimingRows, MaxRows) \cup SeqsUpTo(LocationRows, MaxRows)
    \cup SeqsUpTo(MetricRows, MaxRows) \cup SeqsUpTo(CategoricalRows, MaxRows)
    \cup SeqsUpTo(InterleavedRows, MaxRows)
    \cup [DOMAIN ThreeSamples -> Range(ThreeSamples)]
    \cup [DOMAIN BoundarySamples -> Range(BoundarySamples)]

\* Tables with cells that are empty or no number.
DirtyRows ==
    {Sample(DateText(t), Here[1], Here[2], p, CatA) :
        t \in {0, MERGE_WINDOW_SECONDS + 1},
        p \in {ProfileA, ProfileMissing, ProfileText}}

DirtyInputs == SeqsUpTo(DirtyRows, MaxRows)

\* The tables visualizer2.py is run on.
Rows2 ==
    {Sample2(dt, lat, Here[2], Num(90), Num(15)) :
        dt \in {DateText(0), Text}, lat \in {Here[1], NaN}}

Inputs2 == SeqsUpTo(Rows2, MaxRows)

\* ---------------------------------------------------------------- pandas
\* pd.read_csv: the rows in file order under a RangeIndex 0, 1, ...
read_csv(rows) == [i \in 1..Len(rows) |-> [index |-> i - 1] @@ rows[i]]

\* pd.to_datetime(errors="coerce") of one cell.
to_datetime(c) == IF c.kind = "date" THEN Timestamp(c.num) ELSE NaT

\* df.dropna(subset=...)
dropna(d, subset) == SelectSeq(d, LAMBDA r : \A k \in subset : ~isna(r[k]))

\* Order of two rows under the keys latitude, longitude, datetime.
RowLt(a, b) ==
    \/ Lt(a.latitude, b.latitude)
    \/ /\ a.latitude = b.latitude
       /\ \/ Lt(a.longitude, b.longitude)
          \/ a.longitude = b.longitude /\ Lt(a.datetime, b.datetime)

RECURSIVE InsertRow(_, _)
InsertRow(s, r) ==
    IF s = <<>> THEN <<r>>
    ELSE IF RowLt(r, Head(s)) THEN <<r>> \o s
    ELSE <<Head(s)>> \o InsertRow(Tail(s), r)

\* df.sort_values([latitude, longitude, datetime]): pandas sorts on several
\* keys with a stable lexsort.
RECURSIVE sort_values(_)
sort_values(d) ==
    IF d = <<>> THEN <<>>
    ELSE InsertRow(sort_values(SubSeq(d, 1, Len(d) - 1)), d[Len(d)])

KeyOf(r) == <<r.latitude, r.longitude>>

KeyLt(a, b) == Lt(a[1], b[1]) \/ (a[1] = b[1] /\ Lt(a[2], b[2]))

RECURSIVE SortedKeys(_)
SortedKeys(K) ==
    IF K = {} THEN <<>>
    ELSE LET m == CHOOSE k \in K : \A j \in K : ~KeyLt(j, k)
         IN  <<m>> \o SortedKeys(K \ {m})

\* A grouping on the latitude alone.
groupby_latitude(d) ==
    LET keyed == dropna(d, {"latitude", "longitude"})
        keys == SortedKeys({<<keyed[i].latitude, keyed[i].latitude>> : i \in DOMAIN keyed})
    IN  [i \in DOMAIN keys |-> SelectSeq(keyed, LAMBDA r : r.latitude = keys[i][1])]

\* df.groupby([latitude, longitude]): one group per exact key pair, keys in
\* ascending order, rows of a group in the frame's order; rows with a missing
\* key belong to no group.
groupby(d) ==
    LET keyed == dropna(d, {"latitude", "longitude"})
        keys == SortedKeys({KeyOf(keyed[i]) : i \in DOMAIN keyed})
    IN  [i \in DOMAIN keys |-> SelectSeq(keyed, LAMBDA r : KeyOf(r) = keys[i])]

\* A sort that leaves the rows in any order.
RECURSIVE any_order(_)
any_order(S) ==
    IF S = {} THEN {<<>>}
    ELSE UNION {{<<r>> \o rest : rest \in any_order(S \ {r})} : r \in S}

\* group.sort_values("datetime"): a sort on one key uses kind="quicksort",
\* which is not stable: any ascending order of the rows is a possible
\* result, rows of equal datetime in any relative order.
RECURSIVE sort_values_datetime(_)
sort_values_datetime(S) ==
    IF S = {} THEN {<<>>}
    ELSE LET firsts == {r \in S : \A q \in S : ~Lt(q.datetime, r.datetime)}
         IN  UNION {{<<r>> \o rest : rest \in sort_values_datetime(S \ {r})} : r \in firsts}

Column(rows, k) == [i \in DOMAIN rows |-> rows[i][k]]

\* Series.min() / Series.max(): missing values are skipped; NaN when none is left.
series_min(col) ==
    LET present == {col[i] : i \in {j \in DOMAIN col : ~isna(col[j])}}
    IN  IF present = {} THEN NaN
        ELSE CHOOSE v \in present : \A w \in present : Le(v, w)

\* A maximum that takes the first value.
series_max_first(col) == IF isna(col[1]) THEN NaN ELSE col[1]

series_max(col) ==
    LET present == {col[i] : i \in {j \in DOMAIN col : ~isna(col[j])}}
    IN  IF present = {} THEN NaN
        ELSE CHOOSE v \in present : \A w \in present : Le(w, v)

RECURSIVE SumNum(_)
SumNum(col) == IF col = <<>> THEN 0 ELSE Head(col).num + SumNum(Tail(col))

\* Series.mean(): the sum of the values present over their number; NaN when
\* every value is missing.
series_mean(col) ==
    LET present == SelectSeq(col, LAMBDA c : ~isna(c))
    IN  IF present = <<>> THEN NaN ELSE Ratio(SumNum(present), Len(present))

\* Series.mean() of a column holding text raises TypeError.
series_mean_raises(col) == \E i \in DOMAIN col : col[i].kind = "str"

\* ------------------------------------------------------------ visualizer
Ge(c, n) == c.kind = "num" /\ c.num >= n * c.den

signal_color(signal) ==
    IF signal.kind = "str" THEN "gray"
    ELSE IF signal.kind = "num" /\ signal.num = 0 THEN "black"
    ELSE IF Ge(signal, -50) THEN "green"
    ELSE IF Ge(signal, -60) THEN "lightgreen"
    ELSE IF Ge(signal, -70) THEN "orange"
    ELSE IF Ge(signal, -80) THEN "red"
    ELSE "darkred"

relative_signal_level_color(signal, noise) ==
    IF signal.kind = "str" \/ noise.kind = "str" THEN "gray"
    ELSE LET level == IF isna(signal) \/ isna(noise) THEN NaN
                      ELSE Ratio(signal.num * noise.den - noise.num * signal.den,
                                 signal.den * noise.den)
         IN  IF level.kind = "num" /\ level.num = 0 THEN "black"
             ELSE IF Ge(level, 40) THEN "green"
             ELSE IF Ge(level, 30) THEN "lightgreen"
             ELSE IF Ge(level, 20) THEN "yellow"
             ELSE IF Ge(level, 10) THEN "orange"
             ELSE IF Ge(level, 5) THEN "red"
             ELSE "darkred"

bitrate_color(bitrate) ==
    IF bitrate.kind = "str" THEN "gray"
    ELSE IF bitrate.kind = "num" /\ bitrate.num = 0 THEN "black"
    ELSE IF Ge(bitrate, 50) THEN "green"
    ELSE IF Ge(bitrate, 40) THEN "lightgreen"
    ELSE IF Ge(bitrate, 30) THEN "yellow"
    ELSE IF Ge(bitrate, 20) THEN "orange"
    ELSE IF Ge(bitrate, 10) THEN "red"
    ELSE "darkred"

bitrate_color_halow(bitrate) ==
    IF bitrate.kind = "str" THEN "gray"
    ELSE IF bitrate.kind = "num" /\ bitrate.num = 0 THEN "black"
    ELSE IF Ge(bitrate, 29) THEN "green"
    ELSE IF Ge(bitrate, 20) THEN "lightgreen"
    ELSE IF Ge(bitrate, 15) THEN "yellow"
    ELSE IF Ge(bitrate, 10) THEN "orange"
    ELSE IF Ge(bitrate, 5) THEN "red"
    ELSE "darkred"

\* merge_bucket with the rssi mean taken from the signal column.
merge_bucket_rssi_of_signal(rows) ==
    [datetime |-> series_min(Column(rows, "datetime")),
     latitude |-> rows[1].latitude,
     longitude |-> rows[1].longitude,
     signal_min |-> series_min(Column(rows, "wireless_signal")),
     signal_max |-> series_max(Column(rows, "wireless_signal")),
     noise_min |-> series_min(Column(rows, "wireless_noisef")),
     noise_max |-> series_max(Column(rows, "wireless_noisef")),
     wireless_txrate_max |-> series_max(Column(rows, "wireless_txrate")),
     wireless_txrate_min |-> series_min(Column(rows, "wireless_txrate")),
     wireless_rxrate_max |-> series_max(Column(rows, "wireless_rxrate")),
     wireless_rxrate_min |-> series_min(Column(rows, "wireless_rxrate")),
     wireless_signal |-> series_mean(Column(rows, "wireless_signal")),
     wireless_noisef |-> series_mean(Column(rows, "wireless_noisef")),
     wireless_rssi |-> series_mean(Column(rows, "wireless_signal")),
     wireless_txpower |-> series_mean(Column(rows, "wireless_txpower")),
     wireless_distance |-> series_mean(Column(rows, "wireless_distance")),
     wireless_ccq |-> series_mean(Column(rows, "wireless_ccq")),
     wireless_txrate |-> series_mean(Column(rows, "wireless_txrate")),
     wireless_rxrate |-> series_mean(Column(rows, "wireless_rxrate")),
     wireless_channel |-> rows[1].wireless_channel,
     wireless_frequency |-> rows[1].wireless_frequency,
     wireless_opmode |-> rows[1].wireless_opmode,
     samples_merged |-> Len(rows)]

\* merge_bucket: the aggregated row of a list of rows.
merge_bucket(rows) ==
    [datetime |-> series_min(Column(rows, "datetime")),
     latitude |-> rows[1].latitude,
     longitude |-> rows[1].longitude,
     signal_min |-> series_min(Column(rows, "wireless_signal")),
     signal_max |-> series_max(Column(rows, "wireless_signal")),
     noise_min |-> series_min(Column(rows, "wireless_noisef")),
     noise_max |-> series_max(Column(rows, "wireless_noisef")),
     wireless_txrate_max |-> series_max(Column(rows, "wireless_txrate")),
     wireless_txrate_min |-> series_min(Column(rows, "wireless_txrate")),
     wireless_rxrate_max |-> series_max(Column(rows, "wireless_rxrate")),
     wireless_rxrate_min |-> series_min(Column(rows, "wireless_rxrate")),
     wireless_signal |-> series_mean(Column(rows, "wireless_signal")),
     wireless_noisef |-> series_mean(Column(rows, "wireless_noisef")),
     wireless_rssi |-> series_mean(Column(rows, "wireless_rssi")),
     wireless_txpower |-> series_mean(Column(rows, "wireless_txpower")),
     wireless_distance |-> series_mean(Column(rows, "wireless_distance")),
     wireless_ccq |-> series_mean(Column(rows, "wireless_ccq")),
     wireless_txrate |-> series_mean(Column(rows, "wireless_txrate")),
     wireless_rxrate |-> series_mean(Column(rows, "wireless_rxrate")),
     wireless_channel |-> rows[1].wireless_channel,
     wireless_frequency |-> rows[1].wireless_frequency,
     wireless_opmode |-> rows[1].wireless_opmode,
     samples_merged |-> Len(rows)]

\* merge_bucket raises when one of the means it takes does.
merge_bucket_raises(rows) ==
    \E k \in NumericMetrics : series_mean_raises(Column(rows, k))

NoMap == [built |-> FALSE, saved |-> FALSE, location |-> <<>>, markers |-> <<>>]

Init ==
    /\ pc = "main"
    /\ df = <<>>
    /\ groups = <<>>
    /\ group = <<>>
    /\ current_bucket = <<>>
    /\ bucket_start_time = None
    /\ merged_rows = <<>>
    /\ hasBitrates = FALSE
    /\ map = NoMap
    /\ windows = <<>>
    /\ scanned = <<>>
    /\ \/ script = "visualizer" /\ csv \in Inputs
       \/ script = "visualizer2" /\ csv \in Inputs2

\* The same program run on tables with empty and non-numeric metric cells.
InitDirty ==
    /\ pc = "main"
    /\ df = <<>>
    /\ groups = <<>>
    /\ group = <<>>
    /\ current_bucket = <<>>
    /\ bucket_start_time = None
    /\ merged_rows = <<>>
    /\ hasBitrates = FALSE
    /\ map = NoMap
    /\ windows = <<>>
    /\ scanned = <<>>
    /\ \/ script = "visualizer" /\ csv \in DirtyInputs
       \/ script = "visualizer2" /\ csv \in Inputs2

\* main: df = pd.read_csv(csv_file), then the call of preprocess_data.
main_read_csv ==
    /\ pc = "main"
    /\ script = "visualizer"
    /\ df' = read_csv(csv)
    /\ pc' = "preprocess_data"
    /\ UNCHANGED <<script, csv, groups, group, current_bucket, bucket_start_time,
                   merged_rows, hasBitrates, map, windows, scanned>>

\* preprocess_data up to the loop over the groups: parse the datetimes, drop
\* the invalid rows, sort, group by exact location.
preprocess_data_prepare ==
    /\ pc = "preprocess_data"
    /\ LET parsed == [i \in DOMAIN df |-> [df[i] EXCEPT !.datetime = to_datetime(@)]]
           valid == dropna(parsed, {"datetime", "latitude", "longitude"})
           sorted == sort_values(valid)
       IN  /\ df' = sorted
           /\ groups' = groupby(sorted)
    /\ merged_rows' = <<>>
    /\ pc' = "for_group"
    /\ UNCHANGED <<script, csv, group, current_bucket, bucket_start_time,
                   hasBitrates, map, windows, scanned>>

\* The head of the loop over the groups: the next group, sorted by datetime,
\* with an empty bucket.
preprocess_data_next_group ==
    /\ pc = "for_group"
    /\ groups # <<>>
    /\ \E sorted \in sort_values_datetime(Range(Head(groups))) :
          /\ group' = sorted
          /\ scanned' = Append(scanned, sorted)
    /\ groups' = Tail(groups)
    /\ current_bucket' = <<>>
    /\ bucket_start_time' = None
    /\ pc' = "for_row"
    /\ UNCHANGED <<script, csv, df, merged_rows, hasBitrates, map, windows>>

\* merged_rows.append(merge_bucket(current_bucket)), or the exception it raises.
Emit(bucket) ==
    IF merge_bucket_raises(bucket)
    THEN /\ pc' = "raised"
         /\ UNCHANGED <<merged_rows, windows>>
    ELSE /\ merged_rows' = Append(merged_rows, merge_bucket(bucket))
         /\ windows' = Append(windows, [group |-> Len(scanned), rows |-> bucket])

\* The row loop measuring each row against the previous row of the bucket.
scan_row_previous_sample ==
    /\ pc = "for_row"
    /\ group # <<>>
    /\ LET row == Head(group)
       IN  IF current_bucket = <<>>
           THEN /\ current_bucket' = <<row>>
                /\ bucket_start_time' = row.datetime
                /\ group' = Tail(group)
                /\ UNCHANGED <<pc, merged_rows, windows>>
           ELSE IF row.datetime.num - bucket_start_time.num <= MERGE_WINDOW_SECONDS
           THEN /\ current_bucket' = Append(current_bucket, row)
                /\ group' = Tail(group)
                /\ bucket_start_time' = row.datetime
                /\ UNCHANGED <<pc, merged_rows, windows>>
           ELSE /\ Emit(current_bucket)
                /\ IF merge_bucket_raises(current_bucket)
                   THEN UNCHANGED <<current_bucket, bucket_start_time, group>>
                   ELSE /\ current_bucket' = <<row>>
                        /\ bucket_start_time' = row.datetime
                        /\ group' = Tail(group)
                        /\ UNCHANGED pc
    /\ UNCHANGED <<script, csv, df, groups, hasBitrates, map, scanned>>

\* The row loop with an exclusive boundary.
scan_row_exclusive ==
    /\ pc = "for_row"
    /\ group # <<>>
    /\ LET row == Head(group)
       IN  IF current_bucket = <<>>
           THEN /\ current_bucket' = <<row>>
                /\ bucket_start_time' = row.datetime
                /\ group' = Tail(group)
                /\ UNCHANGED <<pc, merged_rows, windows>>
           ELSE IF row.datetime.num - bucket_start_time.num < MERGE_WINDOW_SECONDS
           THEN /\ current_bucket' = Append(current_bucket, row)
                /\ group' = Tail(group)
                /\ UNCHANGED bucket_start_time
                /\ UNCHANGED <<pc, merged_rows, windows>>
           ELSE /\ Emit(current_bucket)
                /\ IF merge_bucket_raises(current_bucket)
                   THEN UNCHANGED <<current_bucket, bucket_start_time, group>>
                   ELSE /\ current_bucket' = <<row>>
                        /\ bucket_start_time' = row.datetime
                        /\ group' = Tail(group)
                        /\ UNCHANGED pc
    /\ UNCHANGED <<script, csv, df, groups, hasBitrates, map, scanned>>

\* One pass of the loop over the rows of a group.
preprocess_data_scan_row ==
    /\ pc = "for_row"
    /\ group # <<>>
    /\ LET row == Head(group)
       IN  IF current_bucket = <<>>
           THEN /\ current_bucket' = <<row>>
                /\ bucket_start_time' = row.datetime
                /\ group' = Tail(group)
                /\ UNCHANGED <<pc, merged_rows, windows>>
           ELSE IF row.datetime.num - bucket_start_time.num <= MERGE_WINDOW_SECONDS
           THEN /\ current_bucket' = Append(current_bucket, row)
                /\ group' = Tail(group)
                /\ UNCHANGED <<pc, bucket_start_time, merged_rows, windows>>
           ELSE /\ Emit(current_bucket)
                /\ IF merge_bucket_raises(current_bucket)
                   THEN UNCHANGED <<current_bucket, bucket_start_time, group>>
                   ELSE /\ current_bucket' = <<row>>
                        /\ bucket_start_time' = row.datetime
                        /\ group' = Tail(group)
                        /\ UNCHANGED pc
    /\ UNCHANGED <<script, csv, df, groups, hasBitrates, map, scanned>>

\* The end of a group that forgets the bucket still open.
flush_forgotten ==
    /\ pc = "for_row"
    /\ group = <<>>
    /\ pc' = "for_group"
    /\ UNCHANGED <<script, csv, df, groups, group, current_bucket, bucket_start_time,
                   merged_rows, hasBitrates, map, windows, scanned>>

\* After the rows of a group: the bucket still open is merged.
preprocess_data_flush ==
    /\ pc = "for_row"
    /\ group = <<>>
    /\ IF current_bucket # <<>>
       THEN /\ Emit(current_bucket)
            /\ IF merge_bucket_raises(current_bucket) THEN TRUE ELSE pc' = "for_group"
       ELSE /\ pc' = "for_group"
            /\ UNCHANGED <<merged_rows, windows>>
    /\ UNCHANGED <<script, csv, df, groups, group, current_bucket, bucket_start_time,
                   hasBitrates, map, scanned>>

\* return pd.DataFrame(merged_rows), and main's hasBitrates.
preprocess_data_return ==
    /\ pc = "for_group"
    /\ groups = <<>>
    /\ df' = merged_rows
    /\ hasBitrates' = \E i \in DOMAIN merged_rows :
                         {"wireless_rxrate", "wireless_txrate"} \subseteq DOMAIN merged_rows[i]
    /\ pc' = "empty_check"
    /\ UNCHANGED <<script, csv, groups, group, current_bucket, bucket_start_time,
                   merged_rows, map, windows, scanned>>

\* main: if df.empty: print("No valid data after preprocessing."); return
main_empty_check ==
    /\ pc = "empty_check"
    /\ pc' = IF df = <<>> THEN "no_data" ELSE "render"
    /\ UNCHANGED <<script, csv, df, groups, group, current_bucket, bucket_start_time,
                   merged_rows, hasBitrates, map, windows, scanned>>

\* main: the map centred on the mean position, one marker per row, saved.
main_render ==
    /\ pc = "render"
    /\ map' = [built |-> TRUE, saved |-> TRUE,
               location |-> <<series_mean(Column(df, "latitude")),
                              series_mean(Column(df, "longitude"))>>,
               markers |-> [i \in DOMAIN df |->
                   [location |-> <<df[i].latitude, df[i].longitude>>,
                    color |-> IF hasBitrates
                              THEN bitrate_color(df[i].wireless_rxrate_min)
                              ELSE relative_signal_level_color(df[i].wireless_signal,
                                                               df[i].wireless_noisef)]]]
    /\ pc' = "saved"
    /\ UNCHANGED <<script, csv, df, groups, group, current_bucket, bucket_start_time,
                   merged_rows, hasBitrates, windows, scanned>>

\* ----------------------------------------------------------- visualizer2
\* generate_map: df = pd.read_csv(csv_file); the preprocessing and the empty
\* check are commented out.
generate_map_read_csv ==
    /\ pc = "main"
    /\ script = "visualizer2"
    /\ df' = read_csv(csv)
    /\ pc' = "new_map"
    /\ UNCHANGED <<script, csv, groups, group, current_bucket, bucket_start_time,
                   merged_rows, hasBitrates, map, windows, scanned>>

\* generate_map: folium.Map at the mean position; folium refuses a NaN
\* location with ValueError.
generate_map_new_map ==
    /\ pc = "new_map"
    /\ LET center == <<series_mean(Column(df, "latitude")),
                       series_mean(Column(df, "longitude"))>>
       IN  IF isna(center[1]) \/ isna(center[2])
           THEN pc' = "raised" /\ UNCHANGED map
           ELSE /\ map' = [NoMap EXCEPT !.built = TRUE, !.location = center]
                /\ pc' = "markers"
    /\ UNCHANGED <<script, csv, df, groups, group, current_bucket, bucket_start_time,
                   merged_rows, hasBitrates, windows, scanned>>

\* generate_map: one arrow marker per row of the file, then m.save.
generate_map_markers ==
    /\ pc = "markers"
    /\ IF \E i \in DOMAIN df : isna(df[i].latitude) \/ isna(df[i].longitude)
       THEN pc' = "raised" /\ UNCHANGED map
       ELSE /\ map' = [map EXCEPT
                         !.saved = TRUE,
                         !.markers = [i \in DOMAIN df |->
                            [location |-> <<df[i].latitude, df[i].longitude>>,
                             color |-> bitrate_color_halow(df[i].txbitrate)]]]
            /\ pc' = "saved"
    /\ UNCHANGED <<script, csv, df, groups, group, current_bucket, bucket_start_time,
                   merged_rows, hasBitrates, windows, scanned>>

Next ==
    \/ main_read_csv
    \/ preprocess_data_prepare
    \/ preprocess_data_next_group
    \/ preprocess_data_scan_row
    \/ preprocess_data_flush
    \/ preprocess_data_return
    \/ main_empty_check
    \/ main_render
    \/ generate_map_read_csv
    \/ generate_map_new_map
    \/ generate_map_markers

Spec == Init /\ [][Next]_vars

SpecDirty == InitDirty /\ [][Next]_vars

\* ------------------------------------------------------------ properties
\* A line of the file is a valid sample when its datetime parses and its
\* latitude and longitude are present.
ValidRow(r) ==
    /\ r.datetime.kind = "date"
    /\ r.latitude.kind \notin {"nan", "nat"}
    /\ r.longitude.kind \notin {"nan", "nat"}

ValidIdx == {i \in DOMAIN csv : ValidRow(csv[i])}

\* preprocess_data has returned.
Preprocessed ==
    script = "visualizer" /\ pc \in {"empty_check", "no_data", "render", "saved"}

Secs(r) == r.datetime.num

Place(r) == <<r.latitude, r.longitude>>

RECURSIVE SumMerged(_)
SumMerged(recs) ==
    IF recs = <<>> THEN 0 ELSE Head(recs).samples_merged + SumMerged(Tail(recs))

\* The windows of group g, in the order they were merged.
WindowsOf(g) == SelectSeq(windows, LAMBDA w : w.group = g)

RECURSIVE Flatten(_)
Flatten(ws) == IF ws = <<>> THEN <<>> ELSE Head(ws).rows \o Flatten(Tail(ws))

\* The values of column k present in a window.
PresentIdx(rows, k) == {j \in DOMAIN rows : rows[j][k].kind \notin {"nan", "nat"}}

IsMinOf(v, rows, k) ==
    IF PresentIdx(rows, k) = {} THEN v = NaN
    ELSE /\ \E j \in PresentIdx(rows, k) : rows[j][k] = v
         /\ \A j \in PresentIdx(rows, k) : v.num * rows[j][k].den <= rows[j][k].num * v.den

IsMaxOf(v, rows, k) ==
    IF PresentIdx(rows, k) = {} THEN v = NaN
    ELSE /\ \E j \in PresentIdx(rows, k) : rows[j][k] = v
         /\ \A j \in PresentIdx(rows, k) : v.num * rows[j][k].den >= rows[j][k].num * v.den

RECURSIVE SumOver(_, _, _)
SumOver(rows, k, J) ==
    IF J = {} THEN 0
    ELSE LET j == CHOOSE x \in J : TRUE
         IN  rows[j][k].num + SumOver(rows, k, J \ {j})

\* v is the arithmetic mean of the values present (cells of the inputs are integers).
IsMeanOf(v, rows, k) ==
    IF PresentIdx(rows, k) = {} THEN v = NaN
    ELSE /\ v.kind = "num"
         /\ v.den > 0
         /\ v.num * Cardinality(PresentIdx(rows, k)) = SumOver(rows, k, PresentIdx(rows, k)) * v.den

\* C1: once preprocess_data has returned on a non-empty input, the
\* samples_merged of the output records add up to the number of valid input
\* rows: every valid row is in exactly one merged window, an invalid row in
\* none, and each record counts the rows of its window.
C1_EverySampleCountedOnce ==
    (Preprocessed /\ csv # <<>>) =>
        /\ SumMerged(merged_rows) = Cardinality(ValidIdx)
        /\ Len(windows) = Len(merged_rows)
        /\ \A w \in DOMAIN windows :
              /\ merged_rows[w].samples_merged = Len(windows[w].rows)
              /\ Cardinality({windows[w].rows[j].index : j \in DOMAIN windows[w].rows})
                    = Len(windows[w].rows)
        /\ \A i \in DOMAIN csv :
              Cardinality({w \in DOMAIN windows :
                              \E j \in DOMAIN windows[w].rows : windows[w].rows[j].index = i - 1})
                 = IF i \in ValidIdx THEN 1 ELSE 0

\* A run with dropped rows and a record that merged several samples.
C1_Witness ==
    /\ Preprocessed
    /\ Cardinality(ValidIdx) < Len(csv)
    /\ \E w \in DOMAIN merged_rows : merged_rows[w].samples_merged >= 2

\* C2: in every bucket passed to merge_bucket each member's timestamp lies in
\* [anchor, anchor + 6 s], the anchor being the bucket's first sample, and the
\* record's datetime is the least timestamp of the members, the anchor's.
C2_WindowWithinThreshold ==
    \A w \in DOMAIN windows :
        LET rows == windows[w].rows
        IN  /\ rows # <<>>
            /\ \A j \in DOMAIN rows :
                  /\ Secs(rows[1]) <= Secs(rows[j])
                  /\ Secs(rows[j]) <= Secs(rows[1]) + MERGE_WINDOW_SECONDS
            /\ merged_rows[w].datetime.kind = "ts"
            /\ \A j \in DOMAIN rows : merged_rows[w].datetime.num <= Secs(rows[j])
            /\ merged_rows[w].datetime = rows[1].datetime

\* A window of three samples out of file order, the last exactly 6 s after the anchor.
C2_Witness ==
    \E w \in DOMAIN windows :
        LET rows == windows[w].rows
        IN  /\ Len(rows) >= 3
            /\ Secs(rows[Len(rows)]) = Secs(rows[1]) + MERGE_WINDOW_SECONDS
            /\ rows[1].index > rows[2].index

\* One pass of the row loop with a bucket open: the row joins the bucket
\* exactly when it is at most 6 s after the bucket's first row; otherwise the
\* bucket is merged as it stands and the row opens the next one.
C3_ScanStep ==
    (pc = "for_row" /\ group # <<>> /\ current_bucket # <<>> /\ pc' # "raised") =>
        LET row == Head(group)
        IN  IF Secs(row) - Secs(current_bucket[1]) <= 6
            THEN current_bucket' = Append(current_bucket, row) /\ windows' = windows
            ELSE /\ current_bucket' = <<row>>
                 /\ Len(windows') = Len(windows) + 1
                 /\ windows'[Len(windows')].rows = current_bucket

\* The anchors of consecutive windows of a group are more than 6 s apart.
C3_AnchorsApart ==
    \A w \in DOMAIN windows :
        (w > 1 /\ windows[w - 1].group = windows[w].group) =>
            Secs(windows[w].rows[1]) - Secs(windows[w - 1].rows[1]) > 6

\* Samples at t = 0, 5, 6, 13 at one place give windows of sizes 3 and 1.
C3_FourSamples ==
    (Preprocessed /\ csv = BoundarySamples) =>
        [w \in DOMAIN windows |-> Len(windows[w].rows)] = <<3, 1>>

\* C3: the window boundary is inclusive and relative to the anchor: a sample
\* joins the open window exactly when it is at most 6 s after the window's
\* first sample, else the window is closed and the sample anchors a new one;
\* t = 0, 5, 6, 13 gives sizes 3 and 1; anchors of consecutive windows of a
\* group are more than 6 s apart.
C3_InclusiveAnchorBoundary ==
    [][C3_ScanStep]_vars /\ [](C3_AnchorsApart /\ C3_FourSamples)

\* The four samples at t = 0, 5, 6, 13 merged: {0, 5, 6} and {13}.
C3_Witness ==
    /\ Preprocessed
    /\ csv = BoundarySamples
    /\ Len(windows) = 2
    /\ Len(windows[1].rows) = 3
    /\ Secs(windows[1].rows[3]) = 6
    /\ Secs(windows[2].rows[1]) = 13

\* C4: for every group, the windows merged so far, then the open bucket and
\* the rows not yet scanned, are the group's rows in ascending datetime
\* order; when preprocess_data has returned nothing is left open, and the
\* groups hold exactly the valid rows of the file.
C4_WindowsPartitionGroup ==
    /\ \A g \in DOMAIN scanned :
          /\ \A j \in 1..(Len(scanned[g]) - 1) : Secs(scanned[g][j]) <= Secs(scanned[g][j + 1])
          /\ Flatten(WindowsOf(g))
                \o (IF g = Len(scanned) /\ pc = "for_row"
                    THEN current_bucket \o group ELSE <<>>)
             = scanned[g]
    /\ Preprocessed =>
          /\ \A i \in ValidIdx :
                \E g \in DOMAIN scanned :
                    /\ \E j \in DOMAIN scanned[g] : scanned[g][j].index = i - 1
                    /\ \A j \in DOMAIN scanned[g] : Place(scanned[g][j]) = Place(csv[i])
          /\ Len(Flatten(windows)) = Cardinality(ValidIdx)

\* A group given out of time order that was cut into two windows.
C4_Witness ==
    /\ Preprocessed
    /\ \E g \in DOMAIN scanned :
          /\ Len(WindowsOf(g)) = 2
          /\ Len(scanned[g]) = 3
          /\ scanned[g][1].index > scanned[g][3].index

\* C5: every merged window holds samples of one (latitude, longitude) pair,
\* which is the record's; samples whose coordinates differ in either
\* component are never in the same window.
C5_OnePlacePerRecord ==
    /\ \A w \in DOMAIN windows :
          \A j \in DOMAIN windows[w].rows :
              Place(windows[w].rows[j]) = <<merged_rows[w].latitude, merged_rows[w].longitude>>
    /\ \A w \in DOMAIN windows :
          \A i, j \in DOMAIN windows[w].rows :
              /\ windows[w].rows[i].latitude = windows[w].rows[j].latitude
              /\ windows[w].rows[i].longitude = windows[w].rows[j].longitude

\* Three records of one instant: two differ in latitude only, two in longitude only.
C5_Witness ==
    /\ Preprocessed
    /\ \E a, b, c \in DOMAIN merged_rows :
          /\ merged_rows[a].datetime = merged_rows[b].datetime
          /\ merged_rows[a].datetime = merged_rows[c].datetime
          /\ merged_rows[a].latitude # merged_rows[b].latitude
          /\ merged_rows[a].longitude = merged_rows[b].longitude
          /\ merged_rows[a].latitude = merged_rows[c].latitude
          /\ merged_rows[a].longitude # merged_rows[c].longitude

\* C6: every merged window gives exactly one record whose signal_min and
\* signal_max are the least and greatest wireless_signal of the members, whose
\* wireless_signal is their arithmetic mean and whose samples_merged is the
\* number of members (>= 1); t = 0, 2, 4 with signal -50, -55, -60 gives one
\* record with min -60, max -50, mean -55, 3 samples, timestamp t = 0.
C6_SignalStatistics ==
    /\ Len(merged_rows) = Len(windows)
    /\ \A w \in DOMAIN windows :
          LET rows == windows[w].rows
              rec == merged_rows[w]
          IN  /\ IsMinOf(rec.signal_min, rows, "wireless_signal")
              /\ IsMaxOf(rec.signal_max, rows, "wireless_signal")
              /\ IsMeanOf(rec.wireless_signal, rows, "wireless_signal")
              /\ rec.samples_merged = Len(rows)
              /\ rec.samples_merged >= 1
    /\ (Preprocessed /\ csv = ThreeSamples) =>
          /\ Len(merged_rows) = 1
          /\ merged_rows[1].signal_min = Num(-60)
          /\ merged_rows[1].signal_max = Num(-50)
          /\ merged_rows[1].wireless_signal = Num(-55)
          /\ merged_rows[1].samples_merged = 3
          /\ merged_rows[1].datetime = Timestamp(0)

\* The three samples at t = 0, 2, 4 merged into one record of mean -55.
C6_Witness ==
    /\ Preprocessed
    /\ csv = ThreeSamples
    /\ Len(merged_rows) = 1
    /\ merged_rows[1].wireless_signal = Num(-55)
    /\ merged_rows[1].samples_merged = 3

\* The keys a record would hold a metric's extremes under.
MinKeys ==
    [wireless_signal |-> {"signal_min", "wireless_signal_min"},
     wireless_noisef |-> {"noise_min", "wireless_noisef_min"},
     wireless_rssi |-> {"rssi_min", "wireless_rssi_min"},
     wireless_txpower |-> {"txpower_min", "wireless_txpower_min"},
     wireless_distance |-> {"distance_min", "wireless_distance_min"},
     wireless_ccq |-> {"ccq_min", "wireless_ccq_min"},
     wireless_txrate |-> {"txrate_min", "wireless_txrate_min"},
     wireless_rxrate |-> {"rxrate_min", "wireless_rxrate_min"}]

MaxKeys ==
    [wireless_signal |-> {"signal_max", "wireless_signal_max"},
     wireless_noisef |-> {"noise_max", "wireless_noisef_max"},
     wireless_rssi |-> {"rssi_max", "wireless_rssi_max"},
     wireless_txpower |-> {"txpower_max", "wireless_txpower_max"},
     wireless_distance |-> {"distance_max", "wireless_distance_max"},
     wireless_ccq |-> {"ccq_max", "wireless_ccq_max"},
     wireless_txrate |-> {"txrate_max", "wireless_txrate_max"},
     wireless_rxrate |-> {"rxrate_max", "wireless_rxrate_max"}]

\* The metrics whose extremes merge_bucket is documented to track, and the
\* bit rates.
ExtremaMetrics ==
    {"wireless_signal", "wireless_noisef", "wireless_txrate", "wireless_rxrate"}

\* C7 as claimed: every record holds the minimum, the maximum and the mean of
\* every numeric metric of its window.
C7_AllMetricsMinMaxMean ==
    \A w \in DOMAIN windows :
        \A m \in NumericMetrics :
            /\ m \in DOMAIN merged_rows[w]
            /\ IsMeanOf(merged_rows[w][m], windows[w].rows, m)
            /\ \E k \in MinKeys[m] \cap DOMAIN merged_rows[w] :
                  IsMinOf(merged_rows[w][k], windows[w].rows, m)
            /\ \E k \in MaxKeys[m] \cap DOMAIN merged_rows[w] :
                  IsMaxOf(merged_rows[w][k], windows[w].rows, m)

\* C7 (amended): every record holds the arithmetic mean of every numeric
\* metric of its window; it holds the minimum and the maximum of signal,
\* noise, tx rate and rx rate, and no extreme of rssi, tx power, distance and
\* channel quality.
C7_MeanAllExtremaFour ==
    \A w \in DOMAIN windows :
        \A m \in NumericMetrics :
            /\ m \in DOMAIN merged_rows[w]
            /\ IsMeanOf(merged_rows[w][m], windows[w].rows, m)
            /\ IF m \in ExtremaMetrics
               THEN /\ \E k \in MinKeys[m] \cap DOMAIN merged_rows[w] :
                          IsMinOf(merged_rows[w][k], windows[w].rows, m)
                    /\ \E k \in MaxKeys[m] \cap DOMAIN merged_rows[w] :
                          IsMaxOf(merged_rows[w][k], windows[w].rows, m)
               ELSE (MinKeys[m] \cup MaxKeys[m]) \cap DOMAIN merged_rows[w] = {}

\* A record of a window whose samples differ in every metric, one of them
\* with cells missing.
C7_Witness ==
    \E w \in DOMAIN windows :
        /\ Len(windows[w].rows) = 3
        /\ \A m \in NumericMetrics : windows[w].rows[1][m] # windows[w].rows[2][m]
        /\ windows[w].rows[3].wireless_txpower = NaN
        /\ merged_rows[w].wireless_rssi.den > 1

\* C8 as claimed: a missing or non-numeric metric value is never fatal:
\* merge_bucket does not raise, the window yields its record with the right
\* samples_merged, and a metric with no numeric value in the window has
\* min = max = mean = missing.
C8_BadValueNeverFatal ==
    /\ script = "visualizer" => pc # "raised"
    /\ Len(merged_rows) = Len(windows)
    /\ \A w \in DOMAIN windows :
          /\ merged_rows[w].samples_merged = Len(windows[w].rows)
          /\ \A m \in NumericMetrics :
                (\A j \in DOMAIN windows[w].rows : windows[w].rows[j][m].kind # "num") =>
                    /\ merged_rows[w][m] = NaN
                    /\ \A k \in (MinKeys[m] \cup MaxKeys[m]) \cap DOMAIN merged_rows[w] :
                          merged_rows[w][k] = NaN

\* What holds of missing values alone: no window whose metric cells are
\* numbers or empty makes merge_bucket raise, and a metric with every value
\* missing has min = max = mean = NaN.
C8_MissingValueNotFatal ==
    /\ (script = "visualizer" /\ pc = "raised") =>
          \E i \in DOMAIN csv : \E m \in NumericMetrics : csv[i][m].kind = "str"
    /\ Len(merged_rows) = Len(windows)
    /\ \A w \in DOMAIN windows :
          /\ merged_rows[w].samples_merged = Len(windows[w].rows)
          /\ \A m \in NumericMetrics :
                (\A j \in DOMAIN windows[w].rows : windows[w].rows[j][m].kind # "num") =>
                    /\ merged_rows[w][m] = NaN
                    /\ \A k \in (MinKeys[m] \cup MaxKeys[m]) \cap DOMAIN merged_rows[w] :
                          merged_rows[w][k] = NaN

\* C9 as claimed: an input with no valid sample never gets a map built or
\* saved, preprocess_data returns nothing for it and the run ends in the
\* no-data outcome; an input with a valid sample never ends in it.
C9_NoDataShortCircuits ==
    /\ ValidIdx = {} =>
          /\ ~map.built
          /\ ~map.saved
          /\ pc \notin {"render", "markers", "saved"}
    /\ (Preprocessed /\ ValidIdx = {}) => merged_rows = <<>> /\ df = <<>>
    /\ ValidIdx # {} => pc # "no_data"

\* What holds of visualizer.py: main builds no map when no sample is valid,
\* and renders whenever one is.
C9_MainShortCircuits ==
    script = "visualizer" =>
        /\ ValidIdx = {} => ~map.built /\ ~map.saved /\ pc \notin {"render", "saved"}
        /\ (Preprocessed /\ ValidIdx = {}) => merged_rows = <<>> /\ df = <<>>
        /\ ValidIdx # {} => pc \notin {"no_data", "raised"}

\* The row of a window that is first in time, the one earliest in the file
\* among those tied.
EarliestRow(rows) ==
    CHOOSE r \in Range(rows) :
        \A q \in Range(rows) :
            Secs(r) < Secs(q) \/ (Secs(r) = Secs(q) /\ r.index <= q.index)

\* C10 as claimed: the channel, frequency and mode of a record are those of
\* its window's first sample in time, the earliest in the file among samples
\* tied on that timestamp.
C10_CategoricalFromEarliest ==
    \A w \in DOMAIN windows :
        \A f \in CategoricalFields :
            merged_rows[w][f] = EarliestRow(windows[w].rows)[f]

\* What holds whatever the sort does with ties: the channel, frequency and
\* mode are those of the bucket's first row, whose timestamp is the least.
C10_CategoricalFromFirstOfBucket ==
    \A w \in DOMAIN windows :
        /\ \A f \in CategoricalFields : merged_rows[w][f] = windows[w].rows[1][f]
        /\ \A j \in DOMAIN windows[w].rows : Secs(windows[w].rows[1]) <= Secs(windows[w].rows[j])

====
